---------------------------- MODULE Spec2Model ----------------------------
(***************************************************************************)
(* Batch job lifecycle client of the gemini-batch skill:                   *)
(*   create_batch.py  (submit),                                            *)
(*   check_status.py  (getStatus / awaitCompletion),                       *)
(*   get_results.py   (fetchResults),                                      *)
(* run as separate, synchronous command-line invocations against an        *)
(* external job registry and file store that change on their own.          *)
(***************************************************************************)
EXTENDS Integers, Sequences, FiniteSets, TLC

(***************************************************************************)
(* Bounds of the model.                                                    *)
(***************************************************************************)
MaxJobs == 2      \* jobs (and uploads) the registry may hold
MaxActive == 1    \* jobs submitted while the service is followed
MaxLines == 2     \* request lines of the input artifact
MaxPolls == 2     \* sleeps one check_status --wait invocation may make

(***************************************************************************)
(* Program constants.                                                      *)
(***************************************************************************)
PollSeconds == 30

SUCCEEDED == "JOB_STATE_SUCCEEDED"
FAILED == "JOB_STATE_FAILED"
CANCELLED == "JOB_STATE_CANCELLED"
EXPIRED == "JOB_STATE_EXPIRED"
PENDING == "JOB_STATE_PENDING"
RUNNING == "JOB_STATE_RUNNING"
CANCELLING == "JOB_STATE_CANCELLING"

DefaultModel == "gemini-3-flash-preview"

\* The states from which the service moves a job no further.
FinalStates == {SUCCEEDED, FAILED, CANCELLED, EXPIRED}

VARIABLES
    registry,      \* external job registry: job name -> job record or NoJob
    uploads,       \* external file store: the paths uploaded, by handle
    pc,            \* position of the running invocation
    cmd,           \* command line and environment of the invocation
    batch_job,     \* local batch_job: the last batches.get response
    state,         \* local state: the normalised state token
    uploaded_file, \* local uploaded_file of create_batch_job
    trace,         \* external calls the invocation has issued, in order
    stdout,        \* what the invocation has printed, in order
    ret,           \* value returned by the script's function
    exit,          \* process exit code, -1 while running
    prev           \* outcome of the previous invocation (history)

vars == <<registry, uploads, pc, cmd, batch_job, state, uploaded_file,
          trace, stdout, ret, exit, prev>>

JobNames == 1..MaxJobs

NoJob == [exists |-> FALSE]
NoInline == [attr |-> "absent", items |-> <<>>]
NoDest == [kind |-> "none", file_name |-> 0, inlined |-> NoInline]

----------------------------------------------------------------------------
(***************************************************************************)
(* Values printed, calls issued.                                           *)
(***************************************************************************)
Msg(m, s, n) == [msg |-> m, str |-> s, num |-> n]

\* An external call with its arguments and, where the model needs it, what
\* it returned (the state of the job read, the name of the handle issued).
Call(c, s, n, t, d) == [call |-> c, str |-> s, num |-> n, text |-> t, name |-> d]

RetNone == [kind |-> "none", str |-> "", num |-> 0, text |-> <<>>]
RetStr(s) == [kind |-> "str", str |-> s, num |-> 0, text |-> <<>>]
RetName(n) == [kind |-> "name", str |-> "", num |-> n, text |-> <<>>]
RetText(t) == [kind |-> "text", str |-> "", num |-> 0, text |-> t]

NoCmd ==
    [script |-> "", api_key |-> TRUE, job_name |-> 0, wait |-> FALSE,
     output |-> "", input_file |-> "", model |-> "", display_name |-> "",
     command |-> "", thinking |-> FALSE, title |-> "", sdk |-> TRUE]

NoResponse ==
    [name |-> 0, state |-> [rep |-> "str", tok |-> ""], dest |-> NoDest,
     error |-> ""]

NoFile == [name |-> 0, display_name |-> ""]

NoPrev == [valid |-> FALSE]

ReadOnlyScripts == {"check_status", "get_results"}

\* The function returned or exited: the invocation is over.
Finish(out, r, code) ==
    /\ stdout' = out
    /\ ret' = r
    /\ exit' = code
    /\ pc' = "done"

\* sys.exit(1) inside the function: SystemExit is no Exception, main's handler
\* does not see it and the process ends with code 1.
SysExit(out) == Finish(out, RetNone, 1)

\* Mutant: the handler reports the error and the step that raised is taken
\* once more.
MainExcept_Retry(out, e) ==
    /\ stdout' = Append(out, Msg("Error:", e, 0))
    /\ ret' = RetNone
    /\ exit' = -1
    /\ pc' = pc

\* main's handler: except Exception as e: print(f"Error: {e}"); sys.exit(1)
MainExcept(out, e) == Finish(Append(out, Msg("Error:", e, 0)), RetNone, 1)

\* An external call raised (network, auth, quota, unknown job name).
Raised == stdout # <<>> /\ stdout[Len(stdout)] = Msg("Error:", "ServiceError", 0)

----------------------------------------------------------------------------
(***************************************************************************)
(* get_client: the credential check every script starts with.              *)
(***************************************************************************)
NoKeyMsg == Msg("Error: Set GOOGLE_API_KEY or GEMINI_API_KEY environment variable", "", 0)

\* get_client begins with the import of the SDK: except ImportError, print,
\* sys.exit(1).
NoSdkMsg == Msg("Error: google-genai not installed. Run: pip install google-genai", "", 0)

\* get_client of the scripts under src/skills: the SDK, then the key.
get_client(c) ==
    IF ~c.sdk THEN <<NoSdkMsg>>
    ELSE IF ~c.api_key THEN <<NoKeyMsg>> ELSE <<>>

\* History: the outcome of the invocation that just ended, kept while the
\* same read-only command line is run again.
Outcome ==
    [valid |-> TRUE, cmd |-> cmd, state |-> state, batch_job |-> batch_job,
     ret |-> ret, exit |-> exit, stdout |-> stdout, trace |-> trace]

\* A process starts.
Begin(c) ==
    /\ pc = "idle"
    /\ prev' = NoPrev
    /\ cmd' = c
    /\ batch_job' = NoResponse
    /\ state' = ""
    /\ uploaded_file' = NoFile
    /\ trace' = <<>>
    /\ UNCHANGED <<registry, uploads>>

\* The read-only command line that just ended without a service error is run
\* once more: get_client passes again and the first read is next.
Rerun ==
    /\ pc = "done"
    /\ cmd.script \in ReadOnlyScripts
    /\ cmd.sdk
    /\ cmd.api_key
    /\ ~Raised
    /\ prev' = Outcome
    /\ pc' = IF cmd.script = "check_status" THEN "cs_get" ELSE "gr_get"
    /\ batch_job' = NoResponse
    /\ state' = ""
    /\ trace' = <<>>
    /\ stdout' = <<>>
    /\ ret' = RetNone
    /\ exit' = -1
    /\ UNCHANGED <<registry, uploads, cmd, uploaded_file>>

\* The process is gone; nothing of it remains but its effects on the service.
ProcessExit ==
    /\ pc = "done"
    /\ pc' = "idle"
    /\ cmd' = NoCmd
    /\ batch_job' = NoResponse
    /\ state' = ""
    /\ uploaded_file' = NoFile
    /\ trace' = <<>>
    /\ stdout' = <<>>
    /\ ret' = RetNone
    /\ exit' = -1
    /\ prev' = NoPrev
    /\ UNCHANGED <<registry, uploads>>

----------------------------------------------------------------------------
(***************************************************************************)
(* check_status.py                                                         *)
(***************************************************************************)
\* Mutant: a state that is still in progress counted as completed.
completed_states_WithCancelling == {SUCCEEDED, FAILED, CANCELLED, EXPIRED, CANCELLING}

completed_states == {SUCCEEDED, FAILED, CANCELLED, EXPIRED}

\* hasattr(batch_job.state, "name"): an enum member has a name, a str has none.
HasName(s) == s.rep = "enum"

\* str(batch_job.state): a str is itself; an enum member prints with its class.
Str(s) == IF s.rep = "str" THEN s.tok ELSE "JobState." \o s.tok

\* Mutant: str() of the state whatever it is.
StateToken_Str(s) == Str(s)

\* Lines 62-66 (and 74-78, and get_results.py 55-59).
StateToken(s) == IF HasName(s) THEN s.tok ELSE Str(s)

\* Mutant: the loop waits for success only.
LoopContinues_UntilSucceeded(st) == st # SUCCEEDED

\* while state not in completed_states
LoopContinues(st) == st \notin completed_states

\* The closing report of check_status.
StatusReport(job, st) ==
    IF st = SUCCEEDED THEN <<Msg("Job succeeded!", "", 0)>>
    ELSE IF st = FAILED
         THEN <<Msg("Job failed!", "", 0)>> \o
              (IF job.error # "" THEN <<Msg("Error: ", job.error, 0)>> ELSE <<>>)
         ELSE <<Msg("Job state: ", st, 0)>>

\* What client.batches.get(name=j) may return: the registry's record of the
\* job, its state carried as an enum member or as a bare string.
Responses(j) ==
    IF registry[j].exists
    THEN {[name |-> j, state |-> [rep |-> r, tok |-> registry[j].state],
           dest |-> registry[j].dest, error |-> registry[j].error]
          : r \in {"enum", "str"}}
    ELSE {}

\* client.batches.get(name=j), and the state of the job it returned.
GetCall(j, tok) == Call("batches.get", tok, j, <<>>, "")

Gets == Len(SelectSeq(trace, LAMBDA c : c.call = "batches.get"))

Sleeps == Len(SelectSeq(trace, LAMBDA c : c.call = "time.sleep"))

StartCheckStatus(j, w, sdk, key) ==
    LET c == [NoCmd EXCEPT !.script = "check_status", !.job_name = j,
                           !.wait = w, !.sdk = sdk, !.api_key = key] IN
    /\ Begin(c)
    /\ IF get_client(c) = <<>>
       THEN /\ pc' = "cs_get"
            /\ stdout' = <<>>
            /\ ret' = RetNone
            /\ exit' = -1
       ELSE SysExit(get_client(c))

\* Mutant: the loop gives up after MaxPolls reads.
AfterStatusRead_GivesUp(out, job, st) ==
    IF cmd.wait /\ LoopContinues(st) /\ Gets < MaxPolls
    THEN /\ stdout' = Append(out, Msg("Current state: ", st, 0))
         /\ pc' = "cs_sleep"
         /\ UNCHANGED <<ret, exit>>
    ELSE Finish(out \o StatusReport(job, st), RetStr(st), 0)

\* After a read: the loop test of line 70, then either the sleep or the report.
AfterStatusRead(out, job, st) ==
    IF cmd.wait /\ LoopContinues(st)
    THEN /\ stdout' = Append(out, Msg("Current state: ", st, 0))
         /\ pc' = "cs_sleep"
         /\ UNCHANGED <<ret, exit>>
    ELSE Finish(out \o StatusReport(job, st), RetStr(st), 0)

\* Lines 61-66, and the first loop test when --wait is given.
CheckStatusGet ==
    /\ pc = "cs_get"
    /\ \/ /\ trace' = Append(trace, GetCall(cmd.job_name, ""))
          /\ MainExcept(stdout, "ServiceError")
          /\ UNCHANGED <<batch_job, state>>
       \/ \E job \in Responses(cmd.job_name) :
            /\ trace' = Append(trace, GetCall(cmd.job_name, job.state.tok))
            /\ batch_job' = job
            /\ state' = StateToken(job.state)
            /\ AfterStatusRead(
                 IF cmd.wait
                 THEN Append(stdout, Msg("Polling status for job: ", "", cmd.job_name))
                 ELSE stdout,
                 job, StateToken(job.state))
    /\ UNCHANGED <<registry, uploads, cmd, uploaded_file, prev>>

Terminal(j) == registry[j].exists /\ registry[j].state \in FinalStates

\* Mutant: the wait grows with every poll.
CheckStatusSleep_Backoff ==
    /\ pc = "cs_sleep"
    /\ Sleeps < MaxPolls \/ Terminal(cmd.job_name)
    /\ trace' = Append(trace, Call("time.sleep", "", PollSeconds * (Sleeps + 1), <<>>, ""))
    /\ pc' = "cs_poll"
    /\ UNCHANGED <<registry, uploads, cmd, batch_job, state, uploaded_file,
                   stdout, ret, exit, prev>>

\* Line 72. The model stops an endless wait after MaxPolls sleeps, unless the
\* job is over and the next read ends the loop.
CheckStatusSleep ==
    /\ pc = "cs_sleep"
    /\ Sleeps < MaxPolls \/ Terminal(cmd.job_name)
    /\ trace' = Append(trace, Call("time.sleep", "", PollSeconds, <<>>, ""))
    /\ pc' = "cs_poll"
    /\ UNCHANGED <<registry, uploads, cmd, batch_job, state, uploaded_file,
                   stdout, ret, exit, prev>>

\* Mutant: the read inside the loop is made but the loop goes on testing the
\* state it had before the sleep.
CheckStatusPoll_Stale ==
    /\ pc = "cs_poll"
    /\ \/ /\ trace' = Append(trace, GetCall(cmd.job_name, ""))
          /\ MainExcept(stdout, "ServiceError")
          /\ UNCHANGED <<batch_job, state>>
       \/ \E job \in Responses(cmd.job_name) :
            /\ trace' = Append(trace, GetCall(cmd.job_name, job.state.tok))
            /\ batch_job' = job
            /\ state' = state
            /\ AfterStatusRead(stdout, job, state)
    /\ UNCHANGED <<registry, uploads, cmd, uploaded_file, prev>>

\* Mutant: the loop reads the state anew but reports from the job object of
\* the first read.
CheckStatusPoll_OldJob ==
    /\ pc = "cs_poll"
    /\ \/ /\ trace' = Append(trace, GetCall(cmd.job_name, ""))
          /\ MainExcept(stdout, "ServiceError")
          /\ UNCHANGED <<batch_job, state>>
       \/ \E job \in Responses(cmd.job_name) :
            /\ trace' = Append(trace, GetCall(cmd.job_name, job.state.tok))
            /\ batch_job' = batch_job
            /\ state' = StateToken(job.state)
            /\ AfterStatusRead(stdout, batch_job, StateToken(job.state))
    /\ UNCHANGED <<registry, uploads, cmd, uploaded_file, prev>>

\* Lines 73-78 and the loop test that follows.
CheckStatusPoll ==
    /\ pc = "cs_poll"
    /\ \/ /\ trace' = Append(trace, GetCall(cmd.job_name, ""))
          /\ MainExcept(stdout, "ServiceError")
          /\ UNCHANGED <<batch_job, state>>
       \/ \E job \in Responses(cmd.job_name) :
            /\ trace' = Append(trace, GetCall(cmd.job_name, job.state.tok))
            /\ batch_job' = job
            /\ state' = StateToken(job.state)
            /\ AfterStatusRead(stdout, job, StateToken(job.state))
    /\ UNCHANGED <<registry, uploads, cmd, uploaded_file, prev>>

----------------------------------------------------------------------------
(***************************************************************************)
(* create_batch.py                                                         *)
(***************************************************************************)
Paths == {"requests.jsonl", "missing.jsonl"}

\* Path(input_file).exists()
Exists(path) == path = "requests.jsonl"

\* Path(input_file).stem
Stem(path) == IF path = "requests.jsonl" THEN "requests" ELSE "missing"

\* The request keys of the lines of a local input artifact, in file order.
InputKeys(path) == [i \in 1..MaxLines |-> i]

Models == {DefaultModel, "m1"}

DisplayNames == {"", "my-batch"}

\* display_name or file_path.stem
UploadDisplayName(c) ==
    IF c.display_name # "" THEN c.display_name ELSE Stem(c.input_file)

\* display_name or f"batch-{file_path.stem}"
JobDisplayName(c) ==
    IF c.display_name # "" THEN c.display_name ELSE "batch-" \o Stem(c.input_file)

\* client.files.upload(file=input_file, config=UploadFileConfig(...))
\* and the name of the handle it returned (0: it raised)
UploadCall(c, h) == Call("files.upload", c.input_file, h, <<>>, UploadDisplayName(c))

\* Mutant: the model given on the command line is not passed on.
CreateCall_DefaultModel(c, file) ==
    Call("batches.create", DefaultModel, file.name, <<>>, JobDisplayName(c))

\* client.batches.create(model=model, src=uploaded_file.name, config={...})
CreateCall(c, file) == Call("batches.create", c.model, file.name, <<>>, JobDisplayName(c))

\* Mutant: the input file is not looked at before the upload.
AfterClientCreate_NoExistsCheck(c) ==
    IF ~c.sdk THEN MainExcept(<<>>, "ImportError")
    ELSE IF ~c.api_key THEN SysExit(<<NoKeyMsg>>)
    ELSE /\ pc' = "cb_upload"
         /\ stdout' = <<Msg("Uploading batch input file: ", c.input_file, 0)>>
         /\ ret' = RetNone
         /\ exit' = -1

\* Mutant: the input file is looked at before the key.
AfterClientCreate_ExistsFirst(c) ==
    IF ~c.sdk THEN MainExcept(<<>>, "ImportError")
    ELSE IF ~Exists(c.input_file)
         THEN SysExit(<<Msg("Error: File not found: ", c.input_file, 0)>>)
         ELSE IF ~c.api_key THEN SysExit(<<NoKeyMsg>>)
         ELSE /\ pc' = "cb_upload"
              /\ stdout' = <<Msg("Uploading batch input file: ", c.input_file, 0)>>
              /\ ret' = RetNone
              /\ exit' = -1

\* Line 58: the import of google.genai.types, an ImportError of which goes to
\* main's handler; lines 60-65: get_client, then the existence check of the
\* input file.
AfterClientCreate(c) ==
    IF ~c.sdk THEN MainExcept(<<>>, "ImportError")
    ELSE IF ~c.api_key THEN SysExit(<<NoKeyMsg>>)
    ELSE IF ~Exists(c.input_file)
         THEN SysExit(<<Msg("Error: File not found: ", c.input_file, 0)>>)
         ELSE /\ pc' = "cb_upload"
              /\ stdout' = <<Msg("Uploading batch input file: ", c.input_file, 0)>>
              /\ ret' = RetNone
              /\ exit' = -1

Jobs == {j \in JobNames : registry[j].exists}

StartCreateBatch(path, m, dn, sdk, key) ==
    /\ Len(uploads) < MaxActive
    /\ Begin([NoCmd EXCEPT !.script = "create_batch", !.input_file = path,
                           !.model = m, !.display_name = dn, !.sdk = sdk,
                           !.api_key = key])
    /\ AfterClientCreate([NoCmd EXCEPT !.script = "create_batch",
                           !.input_file = path, !.model = m,
                           !.display_name = dn, !.sdk = sdk, !.api_key = key])

\* create_batch.py run again and again, as many times as the registry has
\* room for jobs.
StartSubmit(path, m, dn, sdk, key) ==
    /\ Len(uploads) < MaxJobs
    /\ Begin([NoCmd EXCEPT !.script = "create_batch", !.input_file = path,
                           !.model = m, !.display_name = dn, !.sdk = sdk,
                           !.api_key = key])
    /\ AfterClientCreate([NoCmd EXCEPT !.script = "create_batch",
                           !.input_file = path, !.model = m,
                           !.display_name = dn, !.sdk = sdk, !.api_key = key])

\* Lines 69-76.
CreateBatchUpload ==
    /\ pc = "cb_upload"
    /\ \/ /\ trace' = Append(trace, UploadCall(cmd, 0))
          /\ MainExcept(stdout, "ServiceError")
          /\ UNCHANGED <<uploads, uploaded_file>>
       \/ /\ trace' = Append(trace, UploadCall(cmd, Len(uploads) + 1))
          /\ uploads' = Append(uploads, cmd.input_file)
          /\ uploaded_file' = [name |-> Len(uploads) + 1,
                               display_name |-> UploadDisplayName(cmd)]
          /\ stdout' = Append(stdout, Msg("File uploaded: ", "", Len(uploads) + 1))
          /\ pc' = "cb_create"
          /\ UNCHANGED <<ret, exit>>
    /\ UNCHANGED <<registry, cmd, batch_job, state, prev>>

\* The job the registry creates for a batches.create request.
NewJob(call) ==
    [exists |-> TRUE, state |-> PENDING, src |-> call.num,
     dest |-> NoDest, error |-> "", blob |-> <<>>]

\* Mutant: a job already created from the same input file is handed back
\* instead of a new one.
CreateBatchCreate_Dedup ==
    /\ pc = "cb_create"
    /\ trace' = Append(trace, CreateCall(cmd, uploaded_file))
    /\ \/ /\ MainExcept(stdout, "ServiceError")
          /\ UNCHANGED registry
       \/ LET same == {j \in Jobs : uploads[registry[j].src] = cmd.input_file}
              n == IF same # {} THEN CHOOSE j \in same : TRUE
                   ELSE Cardinality(Jobs) + 1 IN
          /\ n \in JobNames
          /\ registry' = [registry EXCEPT ![n] = IF same # {} THEN @
                                                ELSE NewJob(CreateCall(cmd, uploaded_file))]
          /\ Finish(stdout \o <<Msg("Batch job created: ", "", n),
                                Msg("Job name: ", "", n),
                                Msg("Use check_status.py to monitor progress", "", 0)>>,
                    RetName(n), 0)
    /\ UNCHANGED <<uploads, cmd, batch_job, state, uploaded_file, prev>>

\* Lines 78-87, and lines 104-110 of main.
CreateBatchCreate ==
    /\ pc = "cb_create"
    /\ trace' = Append(trace, CreateCall(cmd, uploaded_file))
    /\ \/ /\ MainExcept(stdout, "ServiceError")
          /\ UNCHANGED registry
       \/ LET n == Cardinality(Jobs) + 1 IN
          /\ n \in JobNames
          /\ registry' = [registry EXCEPT ![n] = NewJob(CreateCall(cmd, uploaded_file))]
          /\ Finish(stdout \o <<Msg("Batch job created: ", "", n),
                                Msg("Job name: ", "", n),
                                Msg("Use check_status.py to monitor progress", "", 0)>>,
                    RetName(n), 0)
    /\ UNCHANGED <<uploads, cmd, batch_job, state, uploaded_file, prev>>

----------------------------------------------------------------------------
(***************************************************************************)
(* The external service: it alone moves a job through its states.          *)
(***************************************************************************)

Line(k, ok) == [kind |-> "json", key |-> k, ok |-> ok]
Blank == [kind |-> "blank", key |-> 0, ok |-> FALSE]

Reverse(s) == [i \in 1..Len(s) |-> s[Len(s) + 1 - i]]

\* The result lines a backend may produce for the requests ks: one line per
\* request, in request order or not, at most one of them an error.
ResultsFor(ks) ==
    {[i \in 1..Len(ks) |-> Line(o[i], i # e)] : o \in {ks, Reverse(ks)}, e \in 0..Len(ks)}

\* A results file as text, cut at its newlines: every line ends with one.
Jsonl(lines) == Append(lines, Blank)

\* The destinations a succeeded job may carry, with the content of the
\* results file the file store then holds.
Outputs(j, ks) ==
    {[dest |-> NoDest, blob |-> <<>>]}
    \cup {[dest |-> [kind |-> "dest", file_name |-> 0,
                     inlined |-> [attr |-> a, items |-> <<>>]],
           blob |-> <<>>] : a \in {"absent", "none", "list"}}
    \cup {[dest |-> [kind |-> "dest", file_name |-> j,
                     inlined |-> [attr |-> "none", items |-> <<>>]],
           blob |-> Jsonl(r)] : r \in ResultsFor(ks)}
    \cup {[dest |-> [kind |-> "dest", file_name |-> 0,
                     inlined |-> [attr |-> "list", items |-> r]],
           blob |-> <<>>] : r \in ResultsFor(ks)}
    \cup {[dest |-> [kind |-> "dest", file_name |-> j,
                     inlined |-> [attr |-> "list", items |-> r]],
           blob |-> Jsonl(r)] : r \in ResultsFor(ks)}

Errors == {"", "quota"}

ServiceAdvance(j) ==
    /\ registry[j].exists
    /\ \/ /\ registry[j].state = PENDING
          /\ registry' = [registry EXCEPT ![j].state = RUNNING]
       \/ /\ registry[j].state = RUNNING
          /\ registry' = [registry EXCEPT ![j].state = CANCELLING]
       \/ /\ registry[j].state = CANCELLING
          /\ registry' = [registry EXCEPT ![j].state = CANCELLED]
       \/ /\ registry[j].state = RUNNING
          /\ registry' = [registry EXCEPT ![j].state = EXPIRED]
    /\ UNCHANGED <<uploads, pc, cmd, batch_job, state, uploaded_file, trace,
                   stdout, ret, exit, prev>>

ServiceFail(j, e) ==
    /\ registry[j].exists
    /\ registry[j].state = RUNNING
    /\ registry' = [registry EXCEPT ![j].state = FAILED, ![j].error = e]
    /\ UNCHANGED <<uploads, pc, cmd, batch_job, state, uploaded_file, trace,
                   stdout, ret, exit, prev>>

ServiceSucceed(j) ==
    /\ registry[j].exists
    /\ registry[j].state = RUNNING
    /\ \E o \in Outputs(j, InputKeys(uploads[registry[j].src])) :
         registry' = [registry EXCEPT ![j].state = SUCCEEDED,
                                      ![j].dest = o.dest, ![j].blob = o.blob]
    /\ UNCHANGED <<uploads, pc, cmd, batch_job, state, uploaded_file, trace,
                   stdout, ret, exit, prev>>

----------------------------------------------------------------------------
(***************************************************************************)
(* get_results.py                                                          *)
(***************************************************************************)
Outputs_paths == {"", "results.jsonl"}

\* Mutant: every completed job is taken to have results.
NotSucceeded_NotCompleted(st) == st \notin completed_states

\* if state != "JOB_STATE_SUCCEEDED"
NotSucceeded(st) == st # SUCCEEDED

\* batch_job.dest and hasattr(batch_job.dest, "file_name") and batch_job.dest.file_name
\* Mutant: inline responses, when there are any, go before the file.
HasFileDest_InlineFirst(job) ==
    /\ job.dest.kind # "none"
    /\ job.dest.file_name # 0
    /\ job.dest.inlined.attr # "list"

HasFileDest(job) == job.dest.kind # "none" /\ job.dest.file_name # 0

\* batch_job.dest and hasattr(batch_job.dest, "inlined_responses")
HasInlineDest(job) == job.dest.kind # "none" /\ job.dest.inlined.attr # "absent"

\* client.files.download(file=n): the bytes of the results file of job n.
Encode(text) == [utf8 |-> text]
Download(n) == Encode(registry[n].blob)

\* file_content.decode("utf-8")
Decode(bytes) == bytes.utf8

RECURSIVE DropBlanks(_)
DropBlanks(t) ==
    IF t = <<>> THEN <<>>
    ELSE IF t[1].kind = "blank" THEN DropBlanks(Tail(t)) ELSE t

\* content.strip().split("\n"): leading and trailing blank lines go, and the
\* empty text still splits into one empty line.
StripSplit(t) ==
    LET s == Reverse(DropBlanks(Reverse(DropBlanks(t))))
    IN IF s = <<>> THEN <<Blank>> ELSE s

\* The response the backend gave to request k, the error it gave to request k.
Payload(k) == k

\* Lines 83-90: what is printed for one line of the results file.
LineSummary(line) ==
    IF line.kind = "json"
    THEN <<Msg("  Key: ", "", line.key)>> \o
         (IF line.ok THEN <<Msg("  Response: ", "", Payload(line.key))>> ELSE <<>>)
    ELSE <<Msg("  (line as it is)", "", 0)>>

RECURSIVE FileSummary(_)
FileSummary(lines) ==
    IF lines = <<>> THEN <<>>
    ELSE LineSummary(lines[1]) \o FileSummary(Tail(lines))

\* Lines 97-104: what is printed for the i-th inline response.
InlineSummary(i, resp) ==
    <<Msg("Response ", "", i)>> \o
    (IF resp.ok THEN <<Msg("(response text)", "", Payload(resp.key))>>
     ELSE <<Msg("Error: ", "", Payload(resp.key))>>)

RECURSIVE InlineReport(_, _)
InlineReport(i, items) ==
    IF items = <<>> THEN <<>>
    ELSE InlineSummary(i, items[1]) \o InlineReport(i + 1, Tail(items))

StartGetResults(j, o, sdk, key) ==
    LET c == [NoCmd EXCEPT !.script = "get_results", !.job_name = j,
                           !.output = o, !.sdk = sdk, !.api_key = key] IN
    /\ Begin(c)
    /\ IF get_client(c) = <<>>
       THEN /\ pc' = "gr_get"
            /\ stdout' = <<>>
            /\ ret' = RetNone
            /\ exit' = -1
       ELSE SysExit(get_client(c))

\* Mutant: the job is read again until it has succeeded.
NotCompleted_Polls(st) ==
    /\ stdout' = <<Msg("Warning: Job is not completed. State: ", st, 0)>>
    /\ pc' = "gr_get"
    /\ UNCHANGED <<ret, exit>>

\* Lines 62-63: the warning, and the function returns None.
NotCompleted(st) ==
    Finish(<<Msg("Warning: Job is not completed. State: ", st, 0)>>, RetNone, 0)

\* Lines 61-69 and 94-107: the branch taken on the job that was read.
AfterResultsRead(job, st) ==
    IF NotSucceeded(st)
    THEN NotCompleted(st)
    ELSE IF HasFileDest(job)
    THEN /\ stdout' = <<Msg("Downloading results from: ", "", job.dest.file_name)>>
         /\ pc' = "gr_download"
         /\ UNCHANGED <<ret, exit>>
    ELSE IF HasInlineDest(job)
    THEN IF job.dest.inlined.attr = "none"
         THEN MainExcept(<<Msg("Inline Results:", "", 0)>>, "TypeError")
         ELSE Finish(<<Msg("Inline Results:", "", 0)>>
                       \o InlineReport(1, job.dest.inlined.items), RetNone, 0)
    ELSE Finish(<<Msg("No results found.", "", 0)>>, RetNone, 0)

\* Line 54.
GetResultsGet ==
    /\ pc = "gr_get"
    /\ \/ /\ trace' = Append(trace, GetCall(cmd.job_name, ""))
          /\ MainExcept(stdout, "ServiceError")
          /\ UNCHANGED <<batch_job, state>>
       \/ \E job \in Responses(cmd.job_name) :
            /\ trace' = Append(trace, GetCall(cmd.job_name, job.state.tok))
            /\ batch_job' = job
            /\ state' = StateToken(job.state)
            /\ AfterResultsRead(job, StateToken(job.state))
    /\ UNCHANGED <<registry, uploads, cmd, uploaded_file, prev>>

\* Mutant: the text is stripped of its last newline before it is written.
AfterDownload_Stripped(content) ==
    IF cmd.output # ""
    THEN /\ trace' = trace \o <<Call("files.download", "", batch_job.dest.file_name, <<>>, ""),
                               Call("write", cmd.output, 0, StripSplit(content), "")>>
         /\ Finish(Append(stdout, Msg("Results saved to ", cmd.output, 0)),
                   RetText(content), 0)
    ELSE /\ trace' = Append(trace, Call("files.download", "", batch_job.dest.file_name, <<>>, ""))
         /\ Finish(stdout \o <<Msg("Results:", "", 0)>> \o FileSummary(StripSplit(content)),
                   RetText(content), 0)

\* Lines 76-92, after the download returned its bytes.
AfterDownload(content) ==
    IF cmd.output # ""
    THEN /\ trace' = trace \o <<Call("files.download", "", batch_job.dest.file_name, <<>>, ""),
                               Call("write", cmd.output, 0, content, "")>>
         /\ Finish(Append(stdout, Msg("Results saved to ", cmd.output, 0)),
                   RetText(content), 0)
    ELSE /\ trace' = Append(trace, Call("files.download", "", batch_job.dest.file_name, <<>>, ""))
         /\ Finish(stdout \o <<Msg("Results:", "", 0)>> \o FileSummary(StripSplit(content)),
                   RetText(content), 0)

\* Mutant: the results file is removed from the store once it is fetched.
GetResultsDownload_Deletes ==
    /\ pc = "gr_download"
    /\ AfterDownload(Decode(Download(batch_job.dest.file_name)))
    /\ registry' = [registry EXCEPT ![batch_job.dest.file_name].blob = <<>>]
    /\ UNCHANGED <<uploads, cmd, batch_job, state, uploaded_file, prev>>

\* Lines 73-92.
GetResultsDownload ==
    /\ pc = "gr_download"
    /\ \/ /\ trace' = Append(trace, Call("files.download", "", batch_job.dest.file_name, <<>>, ""))
          /\ MainExcept(stdout, "ServiceError")
       \/ AfterDownload(Decode(Download(batch_job.dest.file_name)))
    /\ UNCHANGED <<registry, uploads, cmd, batch_job, state, uploaded_file, prev>>

----------------------------------------------------------------------------
(***************************************************************************)
(* gemini_client.py: the typer application, one command per invocation.    *)
(***************************************************************************)
Commands == {"list_models", "generate", "generate_image", "tts", "embed", "upload_file"}

ImagePaths == {""} \cup Paths

Titles == {"", "doc"}

\* The command line of one command, with the defaults of its options.
ClientCmd(k, path, th, ti, sdk, key) ==
    [NoCmd EXCEPT !.script = "gemini_client", !.command = k, !.sdk = sdk,
                  !.api_key = key,
                  !.input_file = IF k \in {"generate", "upload_file"} THEN path ELSE "",
                  !.thinking = IF k = "generate" THEN th ELSE FALSE,
                  !.title = IF k = "embed" THEN ti ELSE "",
                  !.model = CASE k = "generate" -> "gemini-1.5-flash"
                              [] k = "generate_image" -> "imagen-3.0-generate-001"
                              [] k = "tts" -> "gemini-2.5-flash-preview-tts"
                              [] k = "embed" -> "text-embedding-004"
                              [] OTHER -> "",
                  !.output = CASE k = "generate_image" -> "output_image.png"
                               [] k = "tts" -> "output_audio.wav"
                               [] OTHER -> ""]

ClientCmds ==
    {ClientCmd(k, path, th, ti, sdk, key) :
       k \in Commands, path \in ImagePaths, th \in BOOLEAN, ti \in Titles,
       sdk \in BOOLEAN, key \in BOOLEAN}

\* configure_old and get_new_client: only GOOGLE_API_KEY counts.
NoGoogleKeyMsg == Msg("Error: GOOGLE_API_KEY environment variable not set.", "", 0)

ErrorLabel(k) ==
    CASE k = "list_models" -> "Error listing models:"
      [] k = "generate" -> "Error generating content:"
      [] k = "generate_image" -> "Error generating image:"
      [] k = "tts" -> "Error generating audio:"
      [] k = "embed" -> "Error generating embedding:"
      [] OTHER -> "Error uploading file:"

\* The handler every command ends with: except Exception as e:
\* console.print(...). The command then returns and the application exits
\* as after a success.
CommandExcept(c, out, e) == Finish(Append(out, Msg(ErrorLabel(c.command), e, 0)), RetNone, 0)

\* The body of a command up to its first external call.
CommandBody(c) ==
    CASE c.command = "list_models" ->
           /\ stdout' = <<Msg("Available Models:", "", 0)>>
           /\ pc' = "gc_call" /\ ret' = RetNone /\ exit' = -1
      [] c.command = "generate" ->
           LET out == IF c.thinking THEN <<Msg("Thinking mode request", "", 0)>> ELSE <<>> IN
           IF c.input_file = ""
           THEN /\ stdout' = out
                /\ pc' = "gc_call" /\ ret' = RetNone /\ exit' = -1
           ELSE IF ~Exists(c.input_file)
                \* typer.Exit is a RuntimeError: raised inside the try, it is
                \* caught by the command's own handler.
                THEN CommandExcept(c, Append(out, Msg("Error: Image file not found: ",
                                                      c.input_file, 0)), "")
                ELSE /\ stdout' = Append(out, Msg("Uploading ", c.input_file, 0))
                     /\ pc' = "gc_upload" /\ ret' = RetNone /\ exit' = -1
      [] c.command = "generate_image" ->
           /\ stdout' = <<Msg("Generating image with model ", c.model, 0)>>
           /\ pc' = "gc_call" /\ ret' = RetNone /\ exit' = -1
      [] c.command = "tts" ->
           /\ stdout' = <<Msg("Generating audio using ", c.model, 0)>>
           /\ pc' = "gc_call" /\ ret' = RetNone /\ exit' = -1
      [] c.command = "embed" ->
           /\ stdout' = <<Msg("Embedding text with model: ", c.model, 0)>>
           /\ pc' = "gc_call" /\ ret' = RetNone /\ exit' = -1
      [] OTHER ->
           IF ~Exists(c.input_file)
           THEN Finish(<<Msg("Error: File not found: ", c.input_file, 0)>>, RetNone, 0)
           ELSE /\ stdout' = <<Msg("Uploading ", c.input_file, 0)>>
                /\ pc' = "gc_upload" /\ ret' = RetNone /\ exit' = -1

\* The imports of lines 6-8 run before any command: without the SDK the
\* module ends with the traceback of the ImportError and exit code 1.
NoModuleMsg == Msg("Traceback", "ImportError", 0)

\* A command starts: the credential check, outside the try, comes first.
StartClient(c) ==
    /\ c.command \in {"generate", "upload_file"} /\ c.input_file # "" =>
         Len(uploads) < MaxJobs
    /\ c.command = "upload_file" => c.input_file # ""
    /\ Begin(c)
    /\ IF ~c.sdk THEN Finish(<<NoModuleMsg>>, RetNone, 1)
       ELSE IF ~c.api_key
            THEN Finish(<<NoGoogleKeyMsg>>, RetNone, 1)
            ELSE CommandBody(c)

\* old_genai.upload_file(path), lines 82 and 231.
ClientUpload ==
    /\ pc = "gc_upload"
    /\ \/ /\ trace' = Append(trace, Call("upload_file", cmd.input_file, 0, <<>>, ""))
          /\ CommandExcept(cmd, stdout, "ServiceError")
          /\ UNCHANGED uploads
       \/ /\ trace' = Append(trace, Call("upload_file", cmd.input_file,
                                         Len(uploads) + 1, <<>>, ""))
          /\ uploads' = Append(uploads, cmd.input_file)
          /\ IF cmd.command = "upload_file"
             THEN Finish(stdout \o <<Msg("Success! File uploaded: ", "", Len(uploads) + 1),
                                     Msg("URI: ", "", Len(uploads) + 1)>>, RetNone, 0)
             ELSE /\ pc' = "gc_call"
                  /\ UNCHANGED <<stdout, ret, exit>>
    /\ UNCHANGED <<registry, cmd, batch_job, state, uploaded_file, prev>>

\* The request of a command to the backend.
ClientCall(c) ==
    CASE c.command = "list_models" -> Call("list_models", "", 0, <<>>, "")
      [] c.command = "generate" -> Call("generate_content", c.model, 0, <<>>, "")
      [] c.command = "generate_image" -> Call("models.generate_image", c.model, 0, <<>>, "")
      [] c.command = "tts" -> Call("models.generate_content", c.model, 0, <<>>, "")
      [] OTHER -> Call("embed_content", c.model, 0, <<>>,
                       IF c.title # "" THEN "retrieval_document" ELSE "retrieval_query")

\* What the backend may answer.
Shapes(k) ==
    CASE k = "tts" -> {"audio", "no inline data", "no candidates"}
      [] k = "generate_image" -> {"image", "no image"}
      [] OTHER -> {"ok"}

\* What a command prints for an answer, and the file it writes.
Answer(c, shape) ==
    CASE c.command = "list_models" -> <<Msg("- model", "", 0)>>
      [] c.command = "generate" -> <<Msg("(response text)", "", 0)>>
      [] c.command = "generate_image" ->
           IF shape = "image" THEN <<Msg("Image saved to ", c.output, 0)>>
           ELSE <<Msg("No image returned.", "", 0)>>
      [] c.command = "tts" ->
           IF shape = "audio" THEN <<Msg("Audio saved to ", c.output, 0)>>
           ELSE IF shape = "no inline data"
                THEN <<Msg("No inline audio data found in response.", "", 0)>>
                ELSE <<Msg("No candidates returned.", "", 0)>>
      [] OTHER -> <<Msg("Success! Generated embedding of length ", "", 0)>>

Saves(shape) == shape \in {"audio", "image"}

\* The one request of the command, and what follows it.
ClientRequest ==
    /\ pc = "gc_call"
    /\ \/ /\ trace' = Append(trace, ClientCall(cmd))
          /\ CommandExcept(cmd, stdout, "ServiceError")
       \/ \E shape \in Shapes(cmd.command) :
            /\ trace' = Append(trace, ClientCall(cmd)) \o
                        (IF Saves(shape)
                         THEN <<Call("write", cmd.output, 0, <<>>, "")>> ELSE <<>>)
            /\ Finish(stdout \o Answer(cmd, shape), RetNone, 0)
    /\ UNCHANGED <<registry, uploads, cmd, batch_job, state, uploaded_file, prev>>

----------------------------------------------------------------------------
(***************************************************************************)
(* upload.py                                                               *)
(***************************************************************************)
UploadPollSeconds == 2

ACTIVE == "ACTIVE"
PROCESSING == "PROCESSING"
FILE_FAILED == "FAILED"

\* The processing states the file service reports, in the upload response
\* and in each files.get.
FileStates == {PROCESSING, ACTIVE, FILE_FAILED}

UploadPaths == Paths \cup {"clip.mp4"}

\* Path(path).exists()
FileExists(path) == path \in {"requests.jsonl", "clip.mp4"}

\* MIME_TYPES.get(file_path.suffix.lower(), "application/octet-stream")
MimeType(path) ==
    CASE path = "clip.mp4" -> "video/mp4"
      [] path \in Paths -> "application/jsonl"
      [] OTHER -> "application/octet-stream"

\* display_name or file_path.name
FileDisplayName(c) == IF c.display_name # "" THEN c.display_name ELSE c.input_file

\* client.files.upload(file=path, config=UploadFileConfig(...)), with the
\* handle it returned (0: it raised).
FileUploadCall(c, h) == Call("files.upload", c.input_file, h, <<MimeType(c.input_file)>>,
                             FileDisplayName(c))

\* client.files.get(name=n), with the state it returned ("": it raised).
FileGetCall(n, st) == Call("files.get", st, n, <<>>, "")

FileGets == Len(SelectSeq(trace, LAMBDA c : c.call = "files.get"))

\* Mutant: the file is waited for whether --wait was given or not.
NeedsWait_Always(w, st) == st # ACTIVE

\* Line 102: if wait and uploaded_file.state != "ACTIVE"
NeedsWait(w, st) == w /\ st # ACTIVE

\* Mutant: the state of the last read is put into the result.
ResultState_AfterWait(up, info) == info

\* Line 120: "state": uploaded_file.state
ResultState(up, info) == up.state

\* The dict of lines 115-121: name, state (uri, display_name and mime_type
\* go with the name).
RetDict(n, st) == [kind |-> "dict", str |-> st, num |-> n, text |-> <<>>]

\* Lines 115-121, then lines 140-141 of main.
UploadReturn(out, up, info) ==
    Finish(out \o <<Msg("File name: ", "", up.name),
                    Msg("Use this name to reference the file in API calls", "", 0)>>,
           RetDict(up.name, ResultState(up, info)), 0)

\* Lines 77-88: the import, get_client, the existence check.
StartUpload(path, dn, w, sdk, key) ==
    LET c == [NoCmd EXCEPT !.script = "upload", !.input_file = path,
                           !.display_name = dn, !.wait = w, !.sdk = sdk,
                           !.api_key = key] IN
    /\ Len(uploads) < MaxJobs
    /\ Begin(c)
    /\ IF ~sdk THEN MainExcept(<<>>, "ImportError")
       ELSE IF ~key THEN SysExit(<<NoKeyMsg>>)
       ELSE IF ~FileExists(path)
            THEN SysExit(<<Msg("Error: File not found: ", path, 0)>>)
            ELSE /\ pc' = "up_upload"
                 /\ stdout' = <<Msg("Uploading ", path, 0)>>
                 /\ ret' = RetNone
                 /\ exit' = -1

\* Lines 90-103, and the return when there is nothing to wait for.
UploadFileUpload ==
    /\ pc = "up_upload"
    /\ \/ /\ trace' = Append(trace, FileUploadCall(cmd, 0))
          /\ MainExcept(stdout, "ServiceError")
          /\ UNCHANGED <<uploads, uploaded_file>>
       \/ \E st \in FileStates :
            LET n == Len(uploads) + 1
                up == [name |-> n, display_name |-> FileDisplayName(cmd), state |-> st]
                out == stdout \o <<Msg("Uploaded: ", "", n), Msg("URI: ", "", n),
                                   Msg("State: ", st, 0)>> IN
            /\ trace' = Append(trace, FileUploadCall(cmd, n))
            /\ uploads' = Append(uploads, cmd.input_file)
            /\ uploaded_file' = up
            /\ IF NeedsWait(cmd.wait, st)
               THEN /\ stdout' = Append(out, Msg("Waiting for processing...", "", 0))
                    /\ pc' = "up_get"
                    /\ UNCHANGED <<ret, exit>>
               ELSE UploadReturn(out, up, st)
    /\ UNCHANGED <<registry, cmd, batch_job, state, prev>>

\* Lines 105-111: one read of the file and the two tests of its state.
UploadFileGet ==
    /\ pc = "up_get"
    /\ \/ /\ trace' = Append(trace, FileGetCall(uploaded_file.name, ""))
          /\ MainExcept(stdout, "ServiceError")
          /\ UNCHANGED state
       \/ \E st \in FileStates :
            /\ trace' = Append(trace, FileGetCall(uploaded_file.name, st))
            /\ state' = st
            /\ IF st = ACTIVE
               THEN UploadReturn(Append(stdout, Msg("File ready!", "", 0)), uploaded_file, st)
               ELSE IF st = FILE_FAILED
                    THEN SysExit(Append(stdout, Msg("Processing failed!", "", 0)))
                    ELSE /\ pc' = "up_sleep"
                         /\ UNCHANGED <<stdout, ret, exit>>
    /\ UNCHANGED <<registry, uploads, cmd, batch_job, uploaded_file, prev>>

\* Lines 112-113. The model stops an endless wait after MaxPolls sleeps.
UploadFileSleep ==
    /\ pc = "up_sleep"
    /\ Sleeps < MaxPolls
    /\ trace' = Append(trace, Call("time.sleep", "", UploadPollSeconds, <<>>, ""))
    /\ stdout' = Append(stdout, Msg("  Still processing...", "", 0))
    /\ pc' = "up_get"
    /\ UNCHANGED <<registry, uploads, cmd, batch_job, state, uploaded_file,
                   ret, exit, prev>>

----------------------------------------------------------------------------
Init ==
    /\ registry = [j \in JobNames |-> NoJob]
    /\ uploads = <<>>
    /\ pc = "idle"
    /\ cmd = NoCmd
    /\ batch_job = NoResponse
    /\ state = ""
    /\ uploaded_file = NoFile
    /\ trace = <<>>
    /\ stdout = <<>>
    /\ ret = RetNone
    /\ exit = -1
    /\ prev = NoPrev

Next ==
    \/ \E p \in Paths, m \in Models, dn \in DisplayNames, sdk \in BOOLEAN,
          key \in BOOLEAN :
         StartCreateBatch(p, m, dn, sdk, key)
    \/ CreateBatchUpload
    \/ CreateBatchCreate
    \/ \E j \in JobNames, w \in BOOLEAN, sdk \in BOOLEAN, key \in BOOLEAN :
         StartCheckStatus(j, w, sdk, key)
    \/ CheckStatusGet
    \/ CheckStatusSleep
    \/ CheckStatusPoll
    \/ \E j \in JobNames, o \in Outputs_paths, sdk \in BOOLEAN, key \in BOOLEAN :
         StartGetResults(j, o, sdk, key)
    \/ GetResultsGet
    \/ GetResultsDownload
    \/ ProcessExit
    \/ \E j \in JobNames : ServiceAdvance(j)
    \/ \E j \in JobNames, e \in Errors : ServiceFail(j, e)
    \/ \E j \in JobNames : ServiceSucceed(j)

Spec == Init /\ [][Next]_vars

\* The same, with a read-only command line run a second time.
NextRerun == Next \/ Rerun

SpecRerun == Init /\ [][NextRerun]_vars

\* Submissions only: create_batch.py invoked repeatedly against a registry
\* nobody else touches.
NextSubmit ==
    \/ \E p \in Paths, m \in Models, dn \in DisplayNames, sdk \in BOOLEAN,
          key \in BOOLEAN :
         StartSubmit(p, m, dn, sdk, key)
    \/ CreateBatchUpload
    \/ CreateBatchCreate
    \/ ProcessExit

SpecSubmit == Init /\ [][NextSubmit]_vars

\* Jobs submitted, moved by the service and watched by check_status.py; the
\* process that watches is scheduled and its sleep returns.
NextAwait ==
    \/ \E p \in Paths, m \in Models, dn \in DisplayNames, sdk \in BOOLEAN,
          key \in BOOLEAN :
         StartCreateBatch(p, m, dn, sdk, key)
    \/ CreateBatchUpload
    \/ CreateBatchCreate
    \/ \E j \in JobNames, w \in BOOLEAN, sdk \in BOOLEAN, key \in BOOLEAN :
         StartCheckStatus(j, w, sdk, key)
    \/ CheckStatusGet
    \/ CheckStatusSleep
    \/ CheckStatusPoll
    \/ ProcessExit
    \/ \E j \in JobNames : ServiceAdvance(j)
    \/ \E j \in JobNames, e \in Errors : ServiceFail(j, e)
    \/ \E j \in JobNames : ServiceSucceed(j)

SpecAwait ==
    /\ Init
    /\ [][NextAwait]_vars
    /\ WF_vars(CheckStatusGet)
    /\ WF_vars(CheckStatusSleep)
    /\ WF_vars(CheckStatusPoll)

\* gemini_client.py only.
NextClient ==
    \/ \E c \in ClientCmds : StartClient(c)
    \/ ClientUpload
    \/ ClientRequest
    \/ ProcessExit

SpecClient == Init /\ [][NextClient]_vars

\* upload.py only; the file service answers each read as it pleases.
NextUpload ==
    \/ \E p \in UploadPaths, dn \in DisplayNames, w \in BOOLEAN, sdk \in BOOLEAN,
          key \in BOOLEAN :
         StartUpload(p, dn, w, sdk, key)
    \/ UploadFileUpload
    \/ UploadFileGet
    \/ UploadFileSleep
    \/ ProcessExit

SpecUpload == Init /\ [][NextUpload]_vars

----------------------------------------------------------------------------
(***************************************************************************)
(* Properties.                                                             *)
(***************************************************************************)
AwaitCompletion == cmd.script = "check_status" /\ cmd.wait
FetchResults == cmd.script = "get_results"
Submit == cmd.script = "create_batch"

\* The state of the job as the i-th external call of the invocation got it.
Observed(i) == trace[i].str

\* C1: awaitCompletion returns only a state of the terminal set; while the
\* state it observed last is outside that set (known to the client or not) it
\* is on its way to the next read: it has neither returned nor failed, and
\* only a later read that raised can have ended it.
C1_ReturnsOnlyTerminal ==
    AwaitCompletion =>
      /\ pc = "done" /\ exit = 0 => ret.kind = "str" /\ ret.str \in FinalStates
      /\ state # "" /\ state \notin FinalStates =>
           \/ pc \in {"cs_sleep", "cs_poll"}
           \/ /\ pc = "done"
              /\ Raised
              /\ Sleeps >= 1
              /\ Gets = Sleeps + 1

C1_Witness ==
    /\ AwaitCompletion
    /\ pc = "done"
    /\ exit = 0
    /\ Sleeps >= 1
    /\ ret.str \in FinalStates

\* C2: when the first state awaitCompletion observes is terminal, it has
\* returned that state after exactly one batches.get and no sleep.
C2_ImmediateReturn ==
    AwaitCompletion /\ trace # <<>> /\ Observed(1) \in FinalStates =>
      /\ pc = "done"
      /\ exit = 0
      /\ ret = RetStr(Observed(1))
      /\ trace = <<GetCall(cmd.job_name, Observed(1))>>

C2_Witness ==
    /\ AwaitCompletion
    /\ pc = "done"
    /\ trace # <<>>
    /\ Observed(1) \in FinalStates
    /\ Len(trace) = 1

\* C3: for a job in any state but SUCCEEDED, fetchResults ends normally with
\* the empty result and the warning that carries the state: the read of the
\* job is its only external call (no download, no file written).
C3_NotSucceededWarns ==
    FetchResults /\ trace # <<>> /\ Observed(1) \notin {"", SUCCEEDED} =>
      /\ pc = "done"
      /\ exit = 0
      /\ ret = RetNone
      /\ stdout = <<Msg("Warning: Job is not completed. State: ", Observed(1), 0)>>
      /\ Len(trace) = 1

C3_Witness ==
    /\ FetchResults
    /\ pc = "done"
    /\ trace # <<>>
    /\ Observed(1) \in {RUNNING, FAILED}

\* C4 as stated: an invocation of fetchResults performs no status check of
\* the job, never sleeps and never re-reads the job.
C4_NoStatusCheck ==
    FetchResults => Gets = 0 /\ Sleeps = 0

\* C4, amended: fetchResults reads the job exactly once, as its first
\* external call, and checks the state of that one read; it never sleeps and
\* never reads the job again.
C4_OneReadNoPoll ==
    FetchResults =>
      /\ Sleeps = 0
      /\ Gets <= 1
      /\ pc \in {"gr_download", "done"} /\ cmd.sdk /\ cmd.api_key =>
           Gets = 1 /\ trace[1].call = "batches.get"

C4_Witness ==
    /\ FetchResults
    /\ pc = "done"
    /\ Gets = 1
    /\ state = RUNNING
    /\ exit = 0

\* C5: submit on a path that does not exist ends with exit code 1 before any
\* external call (no upload, no job creation), with the file-not-found
\* message once the credential check of get_client has passed.
C5_MissingFileFailsFast ==
    Submit /\ ~Exists(cmd.input_file) =>
      /\ pc = "done"
      /\ exit = 1
      /\ trace = <<>>
      /\ cmd.sdk /\ cmd.api_key =>
           stdout = <<Msg("Error: File not found: ", cmd.input_file, 0)>>

C5_Witness ==
    /\ Submit
    /\ ~Exists(cmd.input_file)
    /\ cmd.api_key
    /\ pc = "done"
    /\ exit = 1

\* C6: batches.create is only ever the second external call of a submit,
\* right after an upload that returned a handle, and its source is the name
\* of that handle; a successful submit made exactly these two calls, the
\* upload of the given file and the creation with the given model.
C6_UploadThenCreate ==
    Submit =>
      /\ \A i \in 1..Len(trace) :
           trace[i].call = "batches.create" =>
             /\ i = 2
             /\ trace[1].call = "files.upload"
             /\ trace[1].num # 0
             /\ trace[2].num = trace[1].num
      /\ pc = "done" /\ exit = 0 =>
           /\ Len(trace) = 2
           /\ trace[1].call = "files.upload"
           /\ trace[1].str = cmd.input_file
           /\ uploads[trace[1].num] = cmd.input_file
           /\ trace[2].call = "batches.create"
           /\ trace[2].str = cmd.model
           /\ registry[ret.num].src = trace[1].num

C6_Witness ==
    /\ Submit
    /\ pc = "done"
    /\ exit = 0
    /\ cmd.model = "m1"

\* fetchResults ended on a succeeded job without an external call raising.
Fetched == FetchResults /\ pc = "done" /\ state = SUCCEEDED /\ ~Raised

\* The job read carries results, as a results file or inline.
CarriesResults ==
    \/ batch_job.dest.file_name # 0
    \/ batch_job.dest.inlined.attr = "list" /\ batch_job.dest.inlined.items # <<>>

\* The result lines the backend delivered with the job read, in its order.
JsonLines(t) == SelectSeq(t, LAMBDA l : l.kind = "json")

Delivered ==
    IF batch_job.dest.file_name # 0
    THEN JsonLines(registry[batch_job.dest.file_name].blob)
    ELSE batch_job.dest.inlined.items

\* The request keys of the artifact the job was submitted with.
SubmittedKeys ==
    LET ks == InputKeys(uploads[registry[cmd.job_name].src])
    IN {ks[i] : i \in 1..Len(ks)}

\* The keys of the records fetchResults gave its caller: those of the lines
\* of the text it returned or, when it returned none, those it printed.
YieldedKeys ==
    IF ret.kind = "text"
    THEN [i \in 1..Len(JsonLines(ret.text)) |-> JsonLines(ret.text)[i].key]
    ELSE LET ps == SelectSeq(stdout, LAMBDA m : m.msg = "  Key: ")
         IN [i \in 1..Len(ps) |-> ps[i].num]

\* C7 as stated: after a submit of M lines whose job succeeded with a results
\* file or with inline results, fetchResults yields exactly M records whose
\* keys are the input keys, one for one, in whatever order they came back.
C7_RoundTripKeys ==
    Fetched /\ CarriesResults =>
      /\ Len(YieldedKeys) = Cardinality(SubmittedKeys)
      /\ {YieldedKeys[i] : i \in 1..Len(YieldedKeys)} = SubmittedKeys

\* The records printed, each as it is flagged: a record starts with its key
\* (results file) or its number (inline) and is followed by its response,
\* by its error, or by neither.
RECURSIVE RecordFlags(_)
RecordFlags(out) ==
    IF out = <<>> THEN <<>>
    ELSE IF out[1].msg \in {"  Key: ", "Response "}
         THEN <<IF Len(out) > 1 /\ out[2].msg \in {"  Response: ", "(response text)"}
                THEN "success"
                ELSE IF Len(out) > 1 /\ out[2].msg = "Error: "
                     THEN "error" ELSE "unflagged">>
              \o RecordFlags(Tail(out))
         ELSE RecordFlags(Tail(out))

\* C8 as stated: of N result lines of which line k carries an error,
\* fetchResults (summarising, no destination path) yields N records, record k
\* flagged as an error with its detail and the others flagged as successes.
C8_ErrorLineFlagged ==
    /\ Fetched
    /\ CarriesResults
    /\ cmd.output = ""
    /\ \E k \in 1..Len(Delivered) : ~Delivered[k].ok
    => /\ Len(RecordFlags(stdout)) = Len(Delivered)
       /\ \A k \in 1..Len(Delivered) :
            RecordFlags(stdout)[k] = IF Delivered[k].ok THEN "success" ELSE "error"

\* C9 as stated: a succeeded job with no destination, or with a destination
\* that has neither a file reference nor inline responses, gives the empty
\* result with the "no results found" signal and exit code 0.
C9_NoResultsFound ==
    Fetched /\ ~CarriesResults =>
      /\ exit = 0
      /\ ret = RetNone
      /\ stdout = <<Msg("No results found.", "", 0)>>

\* The two runs read the same record of the job.
SameJobRead ==
    /\ prev.valid
    /\ prev.cmd = cmd
    /\ prev.state = state
    /\ prev.batch_job.dest = batch_job.dest
    /\ prev.batch_job.error = batch_job.error

\* A step of the running invocation (not of the service).
ClientStep == pc' # pc \/ trace' # trace

\* C10: no step of a getStatus, awaitCompletion or fetchResults invocation
\* changes the registry or the file store (no job changed or created, no
\* upload), and of two runs of one such command line that read the same
\* record of the job, the second ends as the first did: same value returned,
\* same exit code, same closing message and, for fetchResults, the same output
\* and the same external calls.
C10_ReadOnlyIdempotent ==
    /\ [][ClientStep /\ cmd'.script \in ReadOnlyScripts
            => registry' = registry /\ uploads' = uploads]_vars
    /\ [](pc = "done" /\ ~Raised /\ SameJobRead =>
            /\ ret = prev.ret
            /\ exit = prev.exit
            /\ stdout[Len(stdout)] = prev.stdout[Len(prev.stdout)]
            /\ FetchResults => stdout = prev.stdout /\ trace = prev.trace)

C10_Witness ==
    /\ FetchResults
    /\ pc = "done"
    /\ ~Raised
    /\ SameJobRead
    /\ ret.kind = "text"
    /\ cmd.output # ""

\* The job a finished submit returned.
Returned == ret.num

\* C11: submit is not idempotent. Every upload step stores one new artifact,
\* every successful submit adds exactly one job that did not exist before,
\* created from the artifact this very invocation uploaded; no two jobs share
\* an artifact, so k successful submits of one input file leave k uploads of
\* it and k jobs.
C11_SubmitNotIdempotent ==
    /\ [][pc = "cb_upload" /\ pc' = "cb_create" =>
            /\ Len(uploads') = Len(uploads) + 1
            /\ uploads'[Len(uploads')] = cmd.input_file
            /\ uploaded_file'.name = Len(uploads')]_vars
    /\ [][pc = "cb_create" /\ pc' = "done" /\ exit' = 0 =>
            /\ Cardinality(Jobs') = Cardinality(Jobs) + 1
            /\ ~registry[ret'.num].exists
            /\ registry'[ret'.num].exists
            /\ registry'[ret'.num].src = uploaded_file.name
            /\ trace'[1] = UploadCall(cmd, uploaded_file.name)
            /\ uploaded_file.name = Len(uploads)]_vars
    /\ [](\A i \in Jobs, j \in Jobs : i # j => registry[i].src # registry[j].src)
    /\ [](Cardinality(Jobs) <= Len(uploads))

\* Two submits of the same input file have succeeded: two uploads of it and
\* two jobs.
C11_Witness ==
    /\ Submit
    /\ pc = "done"
    /\ exit = 0
    /\ Returned = 2
    /\ Jobs = {1, 2}
    /\ Len(uploads) = 2
    /\ uploads[1] = uploads[2]
    /\ registry[1].src = 1
    /\ registry[2].src = 2

\* The i-th external call of the invocation raised (seen on the calls that
\* record their result).
FailedCall(i) ==
    \/ trace[i].call = "batches.get" /\ trace[i].str = ""
    \/ trace[i].call = "files.upload" /\ trace[i].num = 0

\* C12: nothing is retried. Once an external call of submit, getStatus,
\* awaitCompletion or fetchResults has raised, the invocation is over with
\* the error (exit code 1, nothing returned): the call that raised is the last
\* entry of its trace, and no step adds a call (or a sleep) after it. A read
\* that raises inside the poll loop ends the loop the same way.
C12_NothingRetried ==
    /\ [][Raised => (trace' = trace /\ pc' = pc) \/ pc' = "idle"]_vars
    /\ [](Raised => pc = "done" /\ exit = 1 /\ ret = RetNone /\ trace # <<>>)
    /\ [](\A i \in 1..Len(trace) : FailedCall(i) => i = Len(trace) /\ Raised)

\* The second read of a poll loop raised.
C12_Witness ==
    /\ AwaitCompletion
    /\ Raised
    /\ pc = "done"
    /\ Gets = 2
    /\ Sleeps = 1
    /\ FailedCall(3)
    /\ ~FailedCall(1)

\* An external call of the invocation raised, whatever the script.
CallRaised == stdout # <<>> /\ stdout[Len(stdout)].str = "ServiceError"

\* C13: in every script and every command, an invocation in which an
\* external call raised ends with its message printed and exit code 1, never
\* with exit code 0.
C13_FailureExitsNonZero ==
    CallRaised => pc = "done" /\ exit = 1

\* An invocation has started.
Started == cmd.script # ""

\* C14 as stated: with the API key absent every operation ends with exit
\* code 1 before any external call, stopped by the credential check, which
\* comes before every other check of the operation.
C14_KeyCheckFirst ==
    Started /\ ~cmd.api_key =>
      /\ pc = "done" /\ exit = 1 /\ trace = <<>>
      /\ stdout \in {<<NoKeyMsg>>, <<NoGoogleKeyMsg>>}

\* C14, amended: with the API key absent every operation ends with exit code
\* 1 and nothing returned before any external call. The credential check
\* comes before every check of the operation's arguments and of the job (an
\* input file that does not exist is never reported instead); only the
\* import of the SDK comes before it, and fails with exit code 1 as well.
C14_KeyCheckEager ==
    Started /\ ~cmd.api_key =>
      /\ pc = "done" /\ exit = 1 /\ trace = <<>> /\ ret = RetNone
      /\ IF cmd.sdk
         THEN stdout \in {<<NoKeyMsg>>, <<NoGoogleKeyMsg>>}
         ELSE stdout \in {<<NoSdkMsg>>, <<NoModuleMsg>>, <<Msg("Error:", "ImportError", 0)>>}

\* A submit without a key on a file that does not exist: the key is reported.
C14_Witness ==
    /\ Submit
    /\ cmd.sdk
    /\ ~cmd.api_key
    /\ ~Exists(cmd.input_file)
    /\ pc = "done"
    /\ exit = 1
    /\ stdout = <<NoKeyMsg>>

\* Every state token of the backend.
JobStates == FinalStates \cup {PENDING, RUNNING, CANCELLING}

\* C15: the state of a job is normalized. An enum member and the bare string
\* of one backend state give the same token, the backend's own, so both are
\* classified alike by the terminal test and by the test for SUCCEEDED; the
\* state a read left in the client is that token whichever form came back.
C15_StateNormalized ==
    /\ \A t \in JobStates :
         LET e == StateToken([rep |-> "enum", tok |-> t])
             b == StateToken([rep |-> "str", tok |-> t]) IN
         /\ e = b
         /\ e = t
         /\ LoopContinues(e) <=> LoopContinues(b)
         /\ NotSucceeded(e) <=> NotSucceeded(b)
    /\ batch_job.name # 0 =>
         /\ state = batch_job.state.tok
         /\ LoopContinues(state) <=> batch_job.state.tok \notin FinalStates
         /\ NotSucceeded(state) <=> batch_job.state.tok # SUCCEEDED

\* getStatus on a succeeded job whose state came back as an enum member.
C15_Witness ==
    /\ cmd.script = "check_status"
    /\ ~cmd.wait
    /\ pc = "done"
    /\ batch_job.state.rep = "enum"
    /\ state = SUCCEEDED
    /\ ret = RetStr(SUCCEEDED)

\* Every read of the invocation so far came back with a state outside the
\* terminal set.
AllNonTerminal ==
    \A i \in 1..Len(trace) :
      trace[i].call = "batches.get" => trace[i].str \in JobStates \ FinalStates

\* C16: once the registry holds a terminal state for the job, a running
\* awaitCompletion whose reads succeed returns that state (a read that raises
\* is the only other way out); and there is no iteration limit: however many
\* reads have come back non-terminal, the invocation has not returned.
C16_AwaitTerminates ==
    /\ (AwaitCompletion /\ pc \in {"cs_get", "cs_sleep", "cs_poll"}
          /\ Terminal(cmd.job_name))
       ~> (pc = "done" /\ AwaitCompletion /\ Terminal(cmd.job_name)
             /\ (CallRaised \/ (ret = RetStr(registry[cmd.job_name].state) /\ exit = 0)))
    /\ [](AwaitCompletion /\ cmd.sdk /\ cmd.api_key /\ AllNonTerminal => pc # "done")

\* Two reads came back non-terminal, two sleeps, and the third read returned
\* the terminal state.
C16_Witness ==
    /\ AwaitCompletion
    /\ pc = "done"
    /\ Gets = 3
    /\ Sleeps = 2
    /\ Observed(1) \notin FinalStates
    /\ Observed(3) \notin FinalStates
    /\ Observed(5) \in FinalStates
    /\ ret = RetStr(Observed(5))
    /\ exit = 0

\* The last external step of the invocation.
LastCall == trace[Len(trace)]

\* C17: in getStatus and awaitCompletion every test of the state is made on
\* what the most recent batches.get returned, with no sleep in between: right
\* after a test (on the way to the sleep, or finished) the last external step
\* is that read and the client's state is the one it returned; the state
\* returned at the end is the one of the last read, never one read before a
\* sleep. A sleep is always followed by a new read before the next test.
C17_FreshState ==
    cmd.script = "check_status" /\ trace # <<>> =>
      /\ pc \in {"cs_sleep", "done"} =>
           /\ LastCall.call = "batches.get"
           /\ ~CallRaised =>
                /\ state = LastCall.str
                /\ batch_job.state.tok = LastCall.str
                /\ pc = "done" <=> ~(cmd.wait /\ LoopContinues(LastCall.str))
      /\ pc = "done" /\ ~CallRaised => ret = RetStr(LastCall.str)
      /\ pc = "cs_poll" <=> LastCall.call = "time.sleep"

\* The job ended during the sleep: the state returned is the one of the
\* second read, not the one seen before the sleep.
C17_Witness ==
    /\ AwaitCompletion
    /\ pc = "done"
    /\ Gets = 2
    /\ Sleeps = 1
    /\ Observed(1) = RUNNING
    /\ Observed(3) = SUCCEEDED
    /\ ret = RetStr(SUCCEEDED)

\* C18: the external steps of getStatus and awaitCompletion alternate, read
\* first: every odd step is a batches.get, every even step one sleep of the
\* poll interval, always the same. So exactly one sleep lies between two
\* consecutive reads, none before the first read and none after the last:
\* but for the moment between a sleep and its read, sleeps = reads - 1.
\* Without --wait there is no sleep at all.
C18_OneSleepBetweenReads ==
    cmd.script = "check_status" =>
      /\ \A i \in 1..Len(trace) :
           IF i % 2 = 1
           THEN trace[i].call = "batches.get"
           ELSE trace[i] = Call("time.sleep", "", PollSeconds, <<>>, "")
      /\ trace # <<>> /\ pc # "cs_poll" => Sleeps = Gets - 1
      /\ pc = "cs_poll" => Sleeps = Gets
      /\ ~cmd.wait => Sleeps = 0
      /\ PollSeconds = 30

\* Three reads, the last one terminal, and the two sleeps between them.
C18_Witness ==
    /\ AwaitCompletion
    /\ pc = "done"
    /\ exit = 0
    /\ Len(trace) = 5
    /\ trace[2].num = PollSeconds
    /\ trace[4].num = PollSeconds
    /\ Gets = 3
    /\ Sleeps = 2

Downloads == Len(SelectSeq(trace, LAMBDA c : c.call = "files.download"))

\* The output holds something of the inline report.
InlineRead == \E i \in 1..Len(stdout) : stdout[i].msg \in {"Inline Results:", "Response "}

\* The job as read by a finished fetchResults carries a results file, inline
\* responses.
FileRef == batch_job.dest.kind # "none" /\ batch_job.dest.file_name # 0
InlineRef == batch_job.dest.kind # "none" /\ batch_job.dest.inlined.attr = "list"

\* C19: a fetchResults that read a SUCCEEDED job with a results-file
\* reference calls files.download exactly once, for that file, right after
\* the read; with no file reference (inline responses or nothing), or a job
\* not SUCCEEDED, it never calls it. With both a file reference and inline
\* responses the file is taken and the inline responses are not read.
C19_DownloadOnceOrNever ==
    FetchResults =>
      /\ Downloads <= 1
      /\ pc = "done" /\ Gets = 1 /\ Observed(1) = SUCCEEDED /\ FileRef =>
           /\ Downloads = 1
           /\ trace[2] = Call("files.download", "", batch_job.dest.file_name, <<>>, "")
           /\ ~InlineRead
           /\ ~CallRaised => ret = RetText(Decode(Download(batch_job.dest.file_name)))
      /\ ~(Gets = 1 /\ Observed(1) = SUCCEEDED /\ FileRef) => Downloads = 0
      /\ pc = "done" /\ Gets = 1 /\ Observed(1) = SUCCEEDED /\ ~FileRef /\ InlineRef =>
           Downloads = 0 /\ InlineRead

\* A job with both a results file and inline responses was fetched: one
\* download, the file's content returned.
C19_Witness ==
    /\ FetchResults
    /\ pc = "done"
    /\ exit = 0
    /\ FileRef
    /\ InlineRef
    /\ batch_job.dest.inlined.items # <<>>
    /\ Downloads = 1
    /\ ret.kind = "text"

Writes == SelectSeq(trace, LAMBDA c : c.call = "write")

\* The output holds something of the per-record summary of a results file.
SummaryPrinted ==
    \E i \in 1..Len(stdout) :
      stdout[i].msg \in {"Results:", "  Key: ", "  Response: ", "  (line as it is)"}

\* C20: a fetchResults with an output path whose download succeeded writes
\* one file, at that path, holding the decoded text of the downloaded bytes
\* unchanged, returns that same text and prints no per-record summary, only
\* where it saved. Without an output path nothing is ever written; and no
\* invocation writes anything but that one file.
C20_OutputWrittenUnchanged ==
    FetchResults =>
      /\ cmd.output = "" => Writes = <<>>
      /\ Writes # <<>> => Downloads = 1 /\ pc = "done" /\ ~CallRaised
      /\ pc = "done" /\ ~CallRaised /\ Downloads = 1 =>
           LET content == Decode(Download(batch_job.dest.file_name)) IN
           /\ ret = RetText(content)
           /\ exit = 0
           /\ IF cmd.output # ""
              THEN /\ Writes = <<Call("write", cmd.output, 0, content, "")>>
                   /\ ~SummaryPrinted
                   /\ stdout[Len(stdout)] = Msg("Results saved to ", cmd.output, 0)
              ELSE SummaryPrinted

\* Results of two requests saved to a file and returned.
C20_Witness ==
    /\ FetchResults
    /\ pc = "done"
    /\ cmd.output # ""
    /\ Len(Writes) = 1
    /\ Writes[1].text = ret.text
    /\ Len(ret.text) = MaxLines + 1
    /\ ret.kind = "text"

\* The error lines of the closing report.
ErrorsReported == SelectSeq(stdout, LAMBDA m : m.msg = "Error: ")

\* C21: in check_status the job object and the state always come from one
\* response, the last one. When the invocation ends on FAILED, the last read
\* is the one that saw FAILED, the job object held is that response (its
\* state and its error are the registry's record of the failed job), and the
\* error reported is the error of that response: printed when it is there,
\* whatever the earlier reads carried.
C21_ErrorOfFailedResponse ==
    /\ cmd.script = "check_status" /\ batch_job.name # 0 /\ pc # "cs_poll"
         /\ ~CallRaised =>
         /\ state = batch_job.state.tok
         /\ batch_job.state.tok = LastCall.str
    /\ cmd.script = "check_status" /\ pc = "done" /\ ~CallRaised /\ state = FAILED =>
         /\ LastCall = GetCall(cmd.job_name, FAILED)
         /\ batch_job.state.tok = FAILED
         /\ batch_job.error = registry[cmd.job_name].error
         /\ ret = RetStr(FAILED)
         /\ ErrorsReported =
              (IF batch_job.error # "" THEN <<Msg("Error: ", batch_job.error, 0)>> ELSE <<>>)

\* The first read saw the job running, without an error; it failed during
\* the sleep and the report carries the error of the second read.
C21_Witness ==
    /\ AwaitCompletion
    /\ pc = "done"
    /\ Gets = 2
    /\ Observed(1) = RUNNING
    /\ Observed(3) = FAILED
    /\ batch_job.error = "quota"
    /\ stdout[Len(stdout)] = Msg("Error: ", "quota", 0)

UploadFile == cmd.script = "upload"

\* The upload of the invocation returned a handle.
Uploaded == uploaded_file.name # 0

\* C22: upload_file reads the file only when --wait is given and the upload
\* did not answer ACTIVE. Then its external steps after the upload alternate,
\* read first: a read that observed ACTIVE ends it normally, a read that
\* observed FAILED ends it with exit code 1, and after a read that observed
\* anything else it sleeps 2 seconds and reads again, however many reads
\* came before: it returns normally only after a read of ACTIVE.
C22_WaitPollsUntilTerminal ==
    UploadFile =>
      /\ FileGets > 0 => cmd.wait /\ Uploaded /\ uploaded_file.state # ACTIVE
      /\ Sleeps > 0 => FileGets > 0
      /\ \A i \in 1..Len(trace) :
           /\ i = 1 => trace[i].call = "files.upload"
           /\ i > 1 /\ i % 2 = 0 =>
                /\ trace[i].call = "files.get"
                /\ trace[i].num = uploaded_file.name
                /\ i < Len(trace) => trace[i].str = PROCESSING
           /\ i > 1 /\ i % 2 = 1 =>
                trace[i] = Call("time.sleep", "", UploadPollSeconds, <<>>, "")
      /\ UploadPollSeconds = 2
      /\ Uploaded /\ cmd.wait /\ uploaded_file.state # ACTIVE =>
           /\ pc = "up_get" <=> LastCall.call \in {"files.upload", "time.sleep"}
           /\ pc = "up_sleep" <=> LastCall = FileGetCall(uploaded_file.name, PROCESSING)
           /\ pc = "done" /\ exit = 0 <=> LastCall = FileGetCall(uploaded_file.name, ACTIVE)
           /\ LastCall = FileGetCall(uploaded_file.name, FILE_FAILED) =>
                /\ pc = "done" /\ exit = 1 /\ ret = RetNone
                /\ stdout[Len(stdout)] = Msg("Processing failed!", "", 0)
      /\ Uploaded /\ ~(cmd.wait /\ uploaded_file.state # ACTIVE) =>
           pc = "done" /\ exit = 0 /\ Len(trace) = 1

\* Two reads saw the file in processing, two sleeps, the third read saw
\* ACTIVE and the function returned.
C22_Witness ==
    /\ UploadFile
    /\ cmd.wait
    /\ pc = "done"
    /\ exit = 0
    /\ FileGets = 3
    /\ Sleeps = 2
    /\ LastCall.str = ACTIVE

\* The state the upload call reported, as printed at line 100.
UploadState == stdout[4].str

\* C23: the state in the value upload_file returns is the state the upload
\* response carried, whatever the wait observed afterwards: after a wait that
\* ended on ACTIVE it is still the state from before the wait.
C23_ReturnsPreWaitState ==
    UploadFile /\ pc = "done" /\ exit = 0 =>
      /\ stdout[4].msg = "State: "
      /\ ret = RetDict(uploaded_file.name, UploadState)
      /\ uploaded_file.state = UploadState
      /\ FileGets > 0 => state = ACTIVE /\ ret.str # ACTIVE

\* The upload answered PROCESSING, the wait ended on ACTIVE, and the value
\* returned says PROCESSING.
C23_Witness ==
    /\ UploadFile
    /\ pc = "done"
    /\ exit = 0
    /\ FileGets = 2
    /\ state = ACTIVE
    /\ UploadState = PROCESSING
    /\ ret.str = PROCESSING

============================================================================
